---- MODULE Spec2Model ----
(***************************************************************************)
(* Billing-cycle calculator and per-period aggregator of the account-book  *)
(* reports (src/src/handlers/account_book_reports.rs).                     *)
(*                                                                         *)
(* A calendar date (chrono::NaiveDate) is a record [year, month, day].     *)
(* An Option<NaiveDate> that is None is the record NoneDate; a panicking   *)
(* unwrap() yields PanicDate.  A Decimal amount is the integer number of   *)
(* its hundredths (exact).                                                 *)
(* A String is the sequence of its code points.                            *)
(***************************************************************************)
EXTENDS Integers, Sequences, FiniteSets, TLC

VARIABLES
    today,            \* reference date handed to the cycle calculator
    cycle_start_day,  \* the ledger's cycle_start_day (book.cycle_start_day)
    cycle,            \* result of calculate_current_cycle_dates
    period,           \* result of calculate_cycle_period
    account_books,    \* rows of the account_books table
    categories,       \* rows of the categories table
    transactions,     \* rows of the transactions table
    auto_increment,   \* the AUTO_INCREMENT counter of the transactions table
    requests,         \* the requests received, each with the position of its handler
    response          \* what the last request handler returned

vars ==
    <<today, cycle_start_day, cycle, period, account_books, categories, transactions,
      auto_increment, requests, response>>

----------------------------------------------------------------------------
(* Bounds *)

\* number of consecutive calendar years the reference dates are drawn from
NumYears == 2

\* the first year is a common year, the second one a leap year
Years == 2023 .. (2023 + NumYears - 1)

StartDays == 1 .. 31

----------------------------------------------------------------------------
(* chrono::NaiveDate *)

NoneDate == [year |-> 0, month |-> 0, day |-> 0]

PanicDate == [year |-> -1, month |-> 0, day |-> 0]

MkDate(y, m, d) == [year |-> y, month |-> m, day |-> d]

IsLeapYear(y) == (y % 4 = 0 /\ y % 100 # 0) \/ y % 400 = 0

DaysInMonth(y, m) ==
    IF m = 2 THEN (IF IsLeapYear(y) THEN 29 ELSE 28)
    ELSE IF m \in {4, 6, 9, 11} THEN 30
    ELSE 31

\* NaiveDate::from_ymd_opt
from_ymd_opt(y, m, d) ==
    IF m \in 1 .. 12 /\ d >= 1 /\ d <= DaysInMonth(y, m)
    THEN MkDate(y, m, d)
    ELSE NoneDate

\* Datelike::with_day
with_day(date, d) ==
    IF d >= 1 /\ d <= DaysInMonth(date.year, date.month)
    THEN MkDate(date.year, date.month, d)
    ELSE NoneDate

\* Option::unwrap
Unwrap(opt) == IF opt = NoneDate THEN PanicDate ELSE opt

\* date - chrono::Duration::days(1)
MinusOneDay(date) ==
    IF date.day > 1 THEN MkDate(date.year, date.month, date.day - 1)
    ELSE IF date.month > 1
         THEN MkDate(date.year, date.month - 1, DaysInMonth(date.year, date.month - 1))
         ELSE MkDate(date.year - 1, 12, 31)

\* NaiveDate's ordering
DateLT(a, b) ==
    \/ a.year < b.year
    \/ a.year = b.year /\ a.month < b.month
    \/ a.year = b.year /\ a.month = b.month /\ a.day < b.day

DateLE(a, b) == a = b \/ DateLT(a, b)

\* `x as u32` of an i32: a negative x wraps to x + 2^32 >= 2^31, which is only ever
\* compared with days of a month; the largest integer of TLC stands for it
AsU32(x) == IF x < 0 THEN 2147483647 ELSE x

Dates ==
    { MkDate(y, m, d) : y \in Years, m \in 1 .. 12, d \in 1 .. 31 }
        \ { dt \in { MkDate(y, m, d) : y \in Years, m \in 1 .. 12, d \in 29 .. 31 } :
               dt.day > DaysInMonth(dt.year, dt.month) }

----------------------------------------------------------------------------
(* String formatting: a String is the sequence of its code points *)

CharZero == 48

CharDash == 45

CharSpace == 32

CharLParen == 40

CharRParen == 41

\* U+65E5
CharRi == 26085

\* U+8D77
CharQi == 36215

RECURSIVE Digits(_)
\* the decimal digits of a natural number, no padding
Digits(n) ==
    IF n < 10 THEN <<CharZero + n>>
    ELSE Append(Digits(n \div 10), CharZero + (n % 10))

\* "{}" of an integer
FormatInt(n) == IF n < 0 THEN <<CharDash>> \o Digits(-n) ELSE Digits(n)

\* "{}" where "{:02}" is meant: no zero padding
FormatPad2_Unpadded(n) == Digits(n)

\* "{:02}" of an unsigned integer
FormatPad2(n) == IF n < 10 THEN <<CharZero>> \o Digits(n) ELSE Digits(n)

\* format!("{}-{:02} ({}日起)", cycle_start.year(), cycle_start.month(), cycle_start_day)
FormatPeriod(cycle_start, start_day_i32) ==
    FormatInt(cycle_start.year) \o <<CharDash>> \o FormatPad2(cycle_start.month)
        \o <<CharSpace, CharLParen>> \o FormatInt(start_day_i32)
        \o <<CharRi, CharQi, CharRParen>>

RECURSIVE StrLT(_, _)
\* Ord for String: lexicographic on the code points (the BTreeMap key order)
StrLT(a, b) ==
    IF Len(a) = 0 THEN Len(b) > 0
    ELSE IF Len(b) = 0 THEN FALSE
    ELSE IF Head(a) # Head(b) THEN Head(a) < Head(b)
    ELSE StrLT(Tail(a), Tail(b))

----------------------------------------------------------------------------
(* calculate_current_cycle_dates *)

\* CurrentCycleStart with the overflowing day rolled into the next month, not clamped
CurrentCycleStart_Rollover(ref_date, start_day) ==
    LET w == with_day(ref_date, start_day) IN
    IF w # NoneDate THEN w
    ELSE IF ref_date.month = 12 THEN MkDate(ref_date.year + 1, 1, 1)
    ELSE MkDate(ref_date.year, ref_date.month + 1, 1)

\* the clamped start-day date in today's month
CurrentCycleStart(ref_date, start_day) ==
    LET w == with_day(ref_date, start_day) IN
    IF w # NoneDate THEN w
    ELSE
        LET nxt == from_ymd_opt(ref_date.year, ref_date.month + 1, 1)
            first_of_next == IF nxt # NoneDate THEN nxt
                             ELSE Unwrap(from_ymd_opt(ref_date.year + 1, 1, 1))
            last_day_of_month == MinusOneDay(first_of_next)
        IN  IF start_day > last_day_of_month.day
            THEN last_day_of_month
            ELSE Unwrap(with_day(ref_date, start_day))

\* the start of the previous cycle (branch today < current_cycle_start)
PrevCycleStart(current_cycle_start, start_day) ==
    LET prev_month_start ==
            IF current_cycle_start.month = 1
            THEN Unwrap(from_ymd_opt(current_cycle_start.year - 1, 12, 1))
            ELSE Unwrap(from_ymd_opt(current_cycle_start.year,
                                     current_cycle_start.month - 1, 1))
        w == with_day(prev_month_start, start_day)
    IN  IF w # NoneDate THEN w
        ELSE
            LET last_day_of_prev_month == MinusOneDay(current_cycle_start) IN
            IF start_day > last_day_of_prev_month.day
            THEN last_day_of_prev_month
            ELSE Unwrap(with_day(prev_month_start, start_day))

\* NextCycleStart with the overflowing day rolled into the month after, not clamped
NextCycleStart_Rollover(current_cycle_start, start_day) ==
    LET next_month_start ==
            IF current_cycle_start.month = 12
            THEN MkDate(current_cycle_start.year + 1, 1, 1)
            ELSE MkDate(current_cycle_start.year, current_cycle_start.month + 1, 1)
        w == with_day(next_month_start, start_day)
    IN  IF w # NoneDate THEN w
        ELSE IF next_month_start.month = 12
             THEN MkDate(next_month_start.year + 1, 1, 1)
             ELSE MkDate(next_month_start.year, next_month_start.month + 1, 1)

\* the start of the next cycle (branch today >= current_cycle_start)
NextCycleStart(current_cycle_start, start_day) ==
    LET next_month_start ==
            IF current_cycle_start.month = 12
            THEN Unwrap(from_ymd_opt(current_cycle_start.year + 1, 1, 1))
            ELSE Unwrap(from_ymd_opt(current_cycle_start.year,
                                     current_cycle_start.month + 1, 1))
        w == with_day(next_month_start, start_day)
    IN  IF w # NoneDate THEN w
        ELSE
            LET first_after ==
                    IF next_month_start.month = 12
                    THEN Unwrap(from_ymd_opt(next_month_start.year + 1, 1, 1))
                    ELSE Unwrap(from_ymd_opt(next_month_start.year,
                                             next_month_start.month + 1, 1))
                last_day_of_next_month == MinusOneDay(first_after)
            IN  IF start_day > last_day_of_next_month.day
                THEN last_day_of_next_month
                ELSE Unwrap(with_day(next_month_start, start_day))

NotCalled == [status |-> "none", start_date |-> NoneDate, end_date |-> NoneDate]

CyclePanic == [status |-> "panic", start_date |-> NoneDate, end_date |-> NoneDate]

CycleOk(s, e) == [status |-> "ok", start_date |-> s, end_date |-> e]

calculate_current_cycle_dates(ref_date, start_day_i32) ==
    LET start_day == AsU32(start_day_i32)
        current_cycle_start == CurrentCycleStart(ref_date, start_day)
    IN  IF current_cycle_start = PanicDate THEN CyclePanic
        ELSE IF DateLT(ref_date, current_cycle_start)
        THEN LET prev_cycle_start == PrevCycleStart(current_cycle_start, start_day)
                 prev_cycle_end == MinusOneDay(current_cycle_start)
             IN  IF prev_cycle_start = PanicDate THEN CyclePanic
                 ELSE CycleOk(prev_cycle_start, prev_cycle_end)
        ELSE LET next_cycle_start == NextCycleStart(current_cycle_start, start_day)
                 current_cycle_end == MinusOneDay(next_cycle_start)
             IN  IF next_cycle_start = PanicDate THEN CyclePanic
                 ELSE CycleOk(current_cycle_start, current_cycle_end)

----------------------------------------------------------------------------
(* calculate_cycle_period *)

\* CurrentMonthStart without the clamp to the month's last day
CurrentMonthStart_Unclamped(transaction_date, start_day) ==
    Unwrap(with_day(transaction_date, start_day))

\* the clamped start-day date in the transaction's month
CurrentMonthStart(transaction_date, start_day) ==
    LET w == with_day(transaction_date, start_day) IN
    IF w # NoneDate THEN w
    ELSE
        LET nxt == from_ymd_opt(transaction_date.year, transaction_date.month + 1, 1)
            first_of_next == IF nxt # NoneDate THEN nxt
                             ELSE Unwrap(from_ymd_opt(transaction_date.year + 1, 1, 1))
            last_day_of_month == MinusOneDay(first_of_next)
        IN  IF start_day > last_day_of_month.day
            THEN last_day_of_month
            ELSE Unwrap(with_day(transaction_date, start_day))

\* PeriodCycleStart without the previous-cycle branch
PeriodCycleStart_NoPrevious(transaction_date, current_month_start, start_day) ==
    current_month_start

\* the start of the cycle the transaction date falls in
PeriodCycleStart(transaction_date, current_month_start, start_day) ==
    IF DateLT(transaction_date, current_month_start)
    THEN
        LET prev_month ==
                IF transaction_date.month = 1
                THEN Unwrap(from_ymd_opt(transaction_date.year - 1, 12, 1))
                ELSE Unwrap(from_ymd_opt(transaction_date.year,
                                         transaction_date.month - 1, 1))
            w == with_day(prev_month, start_day)
        IN  IF w # NoneDate THEN w
            ELSE
                LET last_day_of_prev_month == MinusOneDay(current_month_start) IN
                IF start_day > last_day_of_prev_month.day
                THEN last_day_of_prev_month
                ELSE Unwrap(with_day(prev_month, start_day))
    ELSE current_month_start

NoPeriod == [status |-> "none", key |-> << >>]

PeriodPanic == [status |-> "panic", key |-> << >>]

PeriodOk(k) == [status |-> "ok", key |-> k]

calculate_cycle_period(transaction_date, start_day_i32) ==
    LET start_day == AsU32(start_day_i32)
        current_month_start == CurrentMonthStart(transaction_date, start_day)
    IN  IF current_month_start = PanicDate THEN PeriodPanic
        ELSE LET cycle_start ==
                     PeriodCycleStart(transaction_date, current_month_start, start_day)
             IN  IF cycle_start = PanicDate THEN PeriodPanic
                 ELSE PeriodOk(FormatPeriod(cycle_start, start_day_i32))

----------------------------------------------------------------------------
(* The cycle calculator applied to every reference date and start day *)

Init ==
    /\ today \in Dates
    /\ cycle_start_day \in StartDays
    /\ cycle = NotCalled
    /\ period = NoPeriod
    /\ categories = << >>
    /\ transactions = << >>
    /\ response = [kind |-> "none"]
    /\ account_books = << >>
    /\ auto_increment = 1
    /\ requests = << >>

\* reports, default branch: calculate_current_cycle_dates(today, book.cycle_start_day)
ResolveCycle ==
    /\ cycle = NotCalled
    /\ cycle' = calculate_current_cycle_dates(today, cycle_start_day)
    /\ UNCHANGED <<today, cycle_start_day, period, categories, transactions, response, account_books, auto_increment, requests>>

\* get_monthly_trends / get_monthly_details: calculate_cycle_period(date, cycle_start_day)
LabelPeriod ==
    /\ period = NoPeriod
    /\ period' = calculate_cycle_period(today, cycle_start_day)
    /\ UNCHANGED <<today, cycle_start_day, cycle, categories, transactions, response, account_books, auto_increment, requests>>

Next == ResolveCycle \/ LabelPeriod

Spec == Init /\ [][Next]_vars

----------------------------------------------------------------------------
(* The cycle calculator given a cycle_start_day outside 1..31: neither calculator *)
(* checks its argument, an i32                                                    *)

\* start days below and above the days of a month
OutOfRangeDays == {-1, 0, 32}

OutOfRangeInit ==
    /\ today \in Dates
    /\ cycle_start_day \in OutOfRangeDays
    /\ cycle = NotCalled
    /\ period = NoPeriod
    /\ categories = << >>
    /\ transactions = << >>
    /\ response = [kind |-> "none"]
    /\ account_books = << >>
    /\ auto_increment = 1
    /\ requests = << >>

OutOfRangeSpec == OutOfRangeInit /\ [][Next]_vars

----------------------------------------------------------------------------
(* The reports of one ledger: the transactions table and the reports handler *)

\* most rows the transactions table holds
MaxRows == 2

\* transaction dates: a one-digit and a two-digit month of one year, either side of
\* the year boundary, and March with its short predecessor
\* (transaction_date is a MySQL DATE column: its years have four digits)
ReportDates ==
    { MkDate(2023, 9, 15), MkDate(2023, 12, 20), MkDate(2024, 1, 10), MkDate(2024, 3, 15) }

\* the (start_date, end_date) parameters of a report request: the whole span of
\* the transaction dates, three days, one day, and an end before its start
ReportRanges ==
    { <<MkDate(2023, 9, 1), MkDate(2024, 3, 31)>>,
      <<MkDate(2023, 12, 18), MkDate(2023, 12, 20)>>,
      <<MkDate(2023, 12, 20), MkDate(2023, 12, 20)>>,
      <<MkDate(2023, 12, 20), MkDate(2023, 12, 18)>> }

\* the days on which a report without parameters is requested
NowDates == { MkDate(2024, 3, 20) }

ReportStartDays == {15, 31}

TransactionTypes == {"income", "expense"}

\* amounts, in hundredths
Amounts == {1, 2}

\* categories.color is nullable
NullColor == "NULL"

\* a row of the categories table (struct Category); its name is its id in digits
CategoryRow(id, type, color, is_active) ==
    [id |-> id, name |-> FormatInt(id), type |-> type, color |-> color,
     is_active |-> is_active]

\* the categories of the ledger of the reports: one of each type
LedgerCategories ==
    << CategoryRow(1, "income", NullColor, TRUE),
       CategoryRow(2, "expense", "#dc3545", TRUE) >>

\* Category::find_by_id: SELECT * FROM categories WHERE id = ? AND is_active = TRUE
category_find_by_id(table, id) ==
    { table[i] : i \in { k \in 1 .. Len(table) : table[k].id = id /\ table[k].is_active } }

\* Transaction::create: INSERT INTO transactions
TransactionInsert(table, category_id, date, type, amount) ==
    Append(table, [category_id |-> category_id, transaction_date |-> date,
                   type |-> type, amount |-> amount])

RECURSIVE OrderByDate(_)
\* ORDER BY transaction_date (rows of one date in insertion order)
OrderByDate(rows) ==
    IF Len(rows) = 0 THEN << >>
    ELSE LET i == CHOOSE k \in 1 .. Len(rows) :
                      /\ \A j \in 1 .. Len(rows) :
                             ~DateLT(rows[j].transaction_date, rows[k].transaction_date)
                      /\ \A j \in 1 .. (k - 1) :
                             rows[j].transaction_date # rows[k].transaction_date
         IN  <<rows[i]>> \o OrderByDate(SubSeq(rows, 1, i - 1)
                                            \o SubSeq(rows, i + 1, Len(rows)))

\* WHERE account_book_id = ? AND transaction_date BETWEEN ? AND ?
InRange(row, start_date, end_date) ==
    DateLE(start_date, row.transaction_date) /\ DateLE(row.transaction_date, end_date)

\* SELECT transaction_date, type, amount ... ORDER BY transaction_date
SelectRows(table, start_date, end_date) ==
    OrderByDate(SelectSeq(table, LAMBDA row : InRange(row, start_date, end_date)))

\* get_monthly_trends' entry with the amount overwriting the sum
TrendsEntry_Overwrite(entry, type, amount) ==
    IF type = "income" THEN <<amount, entry[2]>>
    ELSE IF type = "expense" THEN <<entry[1], amount>>
    ELSE entry

\* get_monthly_trends: match transaction_type { "income" => .., "expense" => .., _ => {} }
TrendsEntry(entry, type, amount) ==
    IF type = "income" THEN <<entry[1] + amount, entry[2]>>
    ELSE IF type = "expense" THEN <<entry[1], entry[2] + amount>>
    ELSE entry

\* get_monthly_details' entry that counts the income rows only
DetailsEntry_IncomeCounted(entry, type, amount) ==
    IF type = "income" THEN <<entry[1] + amount, entry[2], entry[3] + 1>>
    ELSE IF type = "expense" THEN <<entry[1], entry[2] + amount, entry[3]>>
    ELSE entry

\* get_monthly_details: the same match, then entry.2 += 1
DetailsEntry(entry, type, amount) ==
    IF type = "income" THEN <<entry[1] + amount, entry[2], entry[3] + 1>>
    ELSE IF type = "expense" THEN <<entry[1], entry[2] + amount, entry[3] + 1>>
    ELSE <<entry[1], entry[2], entry[3] + 1>>

\* BTreeMap::entry(key).or_insert(zero): the entry of the key
MapEntry(map, key, zero) == IF key \in DOMAIN map THEN map[key] ELSE zero

\* the map with the entry of the key set
MapPut(map, key, entry) ==
    [k \in (DOMAIN map) \cup {key} |-> IF k = key THEN entry ELSE map[k]]

EmptyMap == << >>

\* a computation that ran to its end with a value, or panicked on the way
Completed(v) == [panicked |-> FALSE, value |-> v]

Panicked == [panicked |-> TRUE, value |-> EmptyMap]

RECURSIVE MonthlyTrendsData(_, _, _)
\* the loop of get_monthly_trends over the rows; Panicked when the labeler panics
MonthlyTrendsData(rows, start_day_i32, monthly_data) ==
    IF Len(rows) = 0 THEN Completed(monthly_data)
    ELSE LET row == Head(rows)
             cycle_period == calculate_cycle_period(row.transaction_date, start_day_i32)
         IN  IF cycle_period.status # "ok" THEN Panicked
             ELSE MonthlyTrendsData(Tail(rows), start_day_i32,
                      MapPut(monthly_data, cycle_period.key,
                             TrendsEntry(MapEntry(monthly_data, cycle_period.key, <<0, 0>>),
                                         row.type, row.amount)))

RECURSIVE MonthlyDetailsData(_, _, _)
\* the loop of get_monthly_details over the rows
MonthlyDetailsData(rows, start_day_i32, monthly_data) ==
    IF Len(rows) = 0 THEN Completed(monthly_data)
    ELSE LET row == Head(rows)
             cycle_period == calculate_cycle_period(row.transaction_date, start_day_i32)
         IN  IF cycle_period.status # "ok" THEN Panicked
             ELSE MonthlyDetailsData(Tail(rows), start_day_i32,
                      MapPut(monthly_data, cycle_period.key,
                             DetailsEntry(MapEntry(monthly_data, cycle_period.key, <<0, 0, 0>>),
                                          row.type, row.amount)))

RECURSIVE BTreeKeys(_)
\* the keys of a BTreeMap<String, _> in iteration order: ascending by String's Ord
BTreeKeys(keys) ==
    IF keys = {} THEN << >>
    ELSE LET least == CHOOSE k \in keys : \A other \in keys \ {k} : StrLT(k, other)
         IN  <<least>> \o BTreeKeys(keys \ {least})

\* one MonthlyTrend per key, in the iteration order of the map
TrendsOf(monthly_data, keys) ==
    [i \in 1 .. Len(keys) |->
        [month |-> keys[i],
         income |-> monthly_data[keys[i]][1],
         expense |-> monthly_data[keys[i]][2]]]

\* monthly_data.into_iter().map(..).collect()
CollectTrends(folded) ==
    IF folded.panicked THEN Panicked
    ELSE Completed(TrendsOf(folded.value, BTreeKeys(DOMAIN folded.value)))

get_monthly_trends(table, start_day_i32, start_date, end_date) ==
    CollectTrends(MonthlyTrendsData(SelectRows(table, start_date, end_date),
                                    start_day_i32, EmptyMap))

\* the MonthlyDetail of one period: balance, its sign and the count
DetailOf(key, income, expense, count) ==
    [date |-> key,
     income |-> income,
     expense |-> expense,
     balance |-> income - expense,
     is_positive_balance |-> income - expense >= 0,
     transaction_count |-> count]

\* one MonthlyDetail per key, in the iteration order of the map
DetailsOf(monthly_data, keys) ==
    [i \in 1 .. Len(keys) |->
        DetailOf(keys[i], monthly_data[keys[i]][1], monthly_data[keys[i]][2],
                 monthly_data[keys[i]][3])]

\* monthly_data.into_iter().map(..).collect()
CollectDetails(folded) ==
    IF folded.panicked THEN Panicked
    ELSE Completed(DetailsOf(folded.value, BTreeKeys(DOMAIN folded.value)))

get_monthly_details(table, start_day_i32, start_date, end_date) ==
    CollectDetails(MonthlyDetailsData(SelectRows(table, start_date, end_date),
                                      start_day_i32, EmptyMap))

RECURSIVE SumCase(_, _)
\* SUM(CASE WHEN type = ? THEN amount ELSE 0 END) over the selected rows
SumCase(rows, type) ==
    IF Len(rows) = 0 THEN 0
    ELSE (IF Head(rows).type = type THEN Head(rows).amount ELSE 0)
             + SumCase(Tail(rows), type)

\* get_monthly_summary without its WHERE transaction_date BETWEEN ? AND ?
get_monthly_summary_AllRows(table, start_date, end_date) ==
    <<SumCase(table, "income"), SumCase(table, "expense")>>

\* Transaction::get_monthly_summary: (total_income, total_expense), NULL sums as zero
get_monthly_summary(table, start_date, end_date) ==
    LET rows == SelectSeq(table, LAMBDA row : InRange(row, start_date, end_date))
    IN  <<SumCase(rows, "income"), SumCase(rows, "expense")>>

\* SQL NULL, and a value that is not NULL, of a nullable column or aggregate
SqlNull == [is_null |-> TRUE, value |-> 0]

SqlValue(v) == [is_null |-> FALSE, value |-> v]

\* Option::unwrap_or(Decimal::ZERO)
UnwrapOrZero(opt) == IF opt.is_null THEN 0 ELSE opt.value

RECURSIVE SumOfRows(_)
SumOfRows(rows) ==
    IF Len(rows) = 0 THEN 0 ELSE Head(rows).amount + SumOfRows(Tail(rows))

\* SUM(amount): NULL over no row
SqlSum(rows) == IF Len(rows) = 0 THEN SqlNull ELSE SqlValue(SumOfRows(rows))

\* WHERE c.account_book_id = ? AND c.type = ? AND c.is_active = TRUE
CategoriesOfType(cats, category_type) ==
    SelectSeq(cats, LAMBDA c : c.type = category_type /\ c.is_active)

\* LEFT JOIN transactions t ON c.id = t.category_id AND t.transaction_date BETWEEN ? AND ?
JoinedRows(category, table, start_date, end_date) ==
    SelectSeq(table, LAMBDA t : t.category_id = category.id
                                    /\ InRange(t, start_date, end_date))

\* SELECT c.name, SUM(t.amount), COUNT(t.id), c.color of one group
GroupRow(category, joined) ==
    [name |-> category.name,
     total_amount |-> SqlSum(joined),
     transaction_count |-> Len(joined),
     color |-> category.color]

\* GROUP BY c.id, c.name, c.color
GroupByCategory(cats, table, start_date, end_date) ==
    [i \in 1 .. Len(cats) |->
        GroupRow(cats[i], JoinedRows(cats[i], table, start_date, end_date))]

\* HAVING with no condition: every group passes
HavingPositive_Any(row) == TRUE

\* HAVING total_amount > 0 (NULL > 0 is not true)
HavingPositive(row) == ~row.total_amount.is_null /\ row.total_amount.value > 0

RECURSIVE OrderByTotalDesc(_)
\* ORDER BY total_amount DESC (groups of one total in the order of the categories)
OrderByTotalDesc(rows) ==
    IF Len(rows) = 0 THEN << >>
    ELSE LET i == CHOOSE k \in 1 .. Len(rows) :
                      /\ \A j \in 1 .. Len(rows) :
                             rows[j].total_amount.value <= rows[k].total_amount.value
                      /\ \A j \in 1 .. (k - 1) :
                             rows[j].total_amount.value # rows[k].total_amount.value
         IN  <<rows[i]>> \o OrderByTotalDesc(SubSeq(rows, 1, i - 1)
                                                 \o SubSeq(rows, i + 1, Len(rows)))

\* LIMIT 10
CategoryLimit == 10

\* a LIMIT that keeps every row
Limit_All(rows, n) == rows

\* LIMIT n
Limit(rows, n) == SubSeq(rows, 1, IF Len(rows) < n THEN Len(rows) ELSE n)

\* the rows the query of get_category_stats fetches
CategoryStatRows(cats, table, category_type, start_date, end_date) ==
    Limit(OrderByTotalDesc(
              SelectSeq(GroupByCategory(CategoriesOfType(cats, category_type),
                                        table, start_date, end_date),
                        HavingPositive)),
          CategoryLimit)

RECURSIVE TotalOfRows(_)
\* rows.iter().map(|(_, amount, _, _)| amount.unwrap_or(Decimal::ZERO)).sum()
TotalOfRows(rows) ==
    IF Len(rows) = 0 THEN 0
    ELSE UnwrapOrZero(Head(rows).total_amount) + TotalOfRows(Tail(rows))

\* f64::round of num / den, for num >= 0 and den > 0: halves go away from zero
RoundF64(num, den) == (2 * num + den) \div (2 * den)

\* (amount / total * 100).to_f64().round() as i32, or 0 without a positive total
Percentage(amount, total) ==
    IF total > 0 THEN RoundF64(amount * 100, total) ELSE 0

DefaultColor == "#007bff"

\* the CategoryStat of one fetched row
CategoryStatOf(row, total) ==
    [name |-> row.name,
     amount |-> UnwrapOrZero(row.total_amount),
     percentage |-> Percentage(UnwrapOrZero(row.total_amount), total),
     color |-> IF row.color = NullColor THEN DefaultColor ELSE row.color,
     transaction_count |-> row.transaction_count]

\* rows.into_iter().map(..).collect(), total being the sum over the fetched rows
CategoryStatsOf(rows, total) ==
    [i \in 1 .. Len(rows) |-> CategoryStatOf(rows[i], total)]

CollectCategoryStats(rows) == CategoryStatsOf(rows, TotalOfRows(rows))

get_category_stats(cats, table, category_type, start_date, end_date) ==
    CollectCategoryStats(CategoryStatRows(cats, table, category_type, start_date, end_date))

\* WHERE account_book_id = ? AND type = 'expense' AND transaction_date BETWEEN ? AND ?
ExpenseRows(table, start_date, end_date) ==
    SelectSeq(table, LAMBDA t : t.type = "expense" /\ InRange(t, start_date, end_date))

RECURSIVE DatesAscending(_)
\* GROUP BY transaction_date ORDER BY transaction_date: the dates of the groups
DatesAscending(dates) ==
    IF dates = {} THEN << >>
    ELSE LET first == CHOOSE d \in dates : \A other \in dates : DateLE(d, other)
         IN  <<first>> \o DatesAscending(dates \ {first})

\* date.format("%m-%d")
FormatMonthDay(date) == FormatPad2(date.month) \o <<CharDash>> \o FormatPad2(date.day)

\* the DailyStat of one date: SUM(amount) of its rows
DailyStatOf(rows, date) ==
    [date |-> FormatMonthDay(date),
     amount |-> UnwrapOrZero(SqlSum(SelectSeq(rows, LAMBDA t : t.transaction_date = date)))]

DailyStatsOf(rows, dates) ==
    [i \in 1 .. Len(dates) |-> DailyStatOf(rows, dates[i])]

CollectDailyStats(rows) ==
    DailyStatsOf(rows, DatesAscending({ rows[i].transaction_date : i \in 1 .. Len(rows) }))

get_daily_expenses(table, start_date, end_date) ==
    CollectDailyStats(ExpenseRows(table, start_date, end_date))

RECURSIVE DaysBeforeMonth(_, _)
\* the days of year y before its month m
DaysBeforeMonth(y, m) ==
    IF m = 1 THEN 0 ELSE DaysBeforeMonth(y, m - 1) + DaysInMonth(y, m - 1)

\* the number of a date in the proleptic Gregorian calendar (1 is 0001-01-01)
num_days_from_ce(date) ==
    365 * (date.year - 1) + ((date.year - 1) \div 4) - ((date.year - 1) \div 100)
        + ((date.year - 1) \div 400) + DaysBeforeMonth(date.year, date.month) + date.day

\* (end_date - start_date).num_days()
num_days(end_date, start_date) == num_days_from_ce(end_date) - num_days_from_ce(start_date)

\* (num / den).round_dp(2) in hundredths, for num >= 0 and den > 0: Decimal::round_dp
\* rounds a half to the even neighbour
round_dp(num, den) ==
    IF 2 * (num % den) < den THEN num \div den
    ELSE IF 2 * (num % den) > den THEN (num \div den) + 1
    ELSE IF (num \div den) % 2 = 0 THEN num \div den
    ELSE (num \div den) + 1

\* average_daily_expense of reports
AverageDailyExpense(total_expense, days_count) ==
    IF days_count > 0 THEN round_dp(total_expense, days_count) ELSE 0

Abs(x) == IF x < 0 THEN -x ELSE x

\* is_positive_balance as a strict comparison
IsPositiveBalance_Strict(total_income, total_expense) == total_income > total_expense

\* is_positive_balance of reports
IsPositiveBalance(total_income, total_expense) == total_income >= total_expense

\* the template the reports handler renders
ReportsTemplate(start_date, end_date, monthly_trends, expense_categories, income_categories, daily_expenses, monthly_details, total_income, total_expense) ==
    IF monthly_trends.panicked \/ monthly_details.panicked
    THEN [kind |-> "panic"]
    ELSE [kind |-> "reports",
          start_date |-> start_date,
          end_date |-> end_date,
          monthly_trends |-> monthly_trends.value,
          expense_categories |-> expense_categories,
          income_categories |-> income_categories,
          daily_expenses |-> daily_expenses,
          monthly_details |-> monthly_details.value,
          total_income |-> total_income,
          total_expense |-> total_expense,
          net_balance |-> total_income - total_expense,
          net_balance_abs |-> Abs(total_income - total_expense),
          is_positive_balance |-> IsPositiveBalance(total_income, total_expense),
          average_daily_expense |->
              AverageDailyExpense(total_expense, num_days(end_date, start_date))]

\* the body of reports once the date range is known
ReportsFor(cats, table, start_day_i32, start_date, end_date) ==
    ReportsTemplate(start_date, end_date,
                    get_monthly_trends(table, start_day_i32, start_date, end_date),
                    get_category_stats(cats, table, "expense", start_date, end_date),
                    get_category_stats(cats, table, "income", start_date, end_date),
                    get_daily_expenses(table, start_date, end_date),
                    get_monthly_details(table, start_day_i32, start_date, end_date),
                    get_monthly_summary(table, start_date, end_date)[1],
                    get_monthly_summary(table, start_date, end_date)[2])

\* reports' default range: the current cycle of today
ReportsOfCycle(cats, table, start_day_i32, current) ==
    IF current.status # "ok" THEN [kind |-> "panic"]
    ELSE ReportsFor(cats, table, start_day_i32, current.start_date, current.end_date)

ReportInit ==
    /\ today \in NowDates
    /\ cycle_start_day \in ReportStartDays
    /\ cycle = NotCalled
    /\ period = NoPeriod
    /\ categories = LedgerCategories
    /\ transactions = << >>
    /\ response = [kind |-> "none"]
    /\ account_books = << >>
    /\ auto_increment = 1
    /\ requests = << >>

\* a transaction is stored (Transaction::create); the handler answers with a redirect
TransactionCreate ==
    /\ Len(transactions) < MaxRows
    /\ \E date \in ReportDates, type \in TransactionTypes, amount \in Amounts :
       \E category_id \in 1 .. Len(categories) :
           /\ \E category \in category_find_by_id(categories, category_id) : category.type = type
           /\ transactions' = TransactionInsert(transactions, category_id, date, type, amount)
    /\ response' = [kind |-> "redirect"]
    /\ UNCHANGED <<today, cycle_start_day, cycle, period, categories, account_books, auto_increment, requests>>

\* reports with ?start_date=..&end_date=..
ReportsExplicitRange ==
    /\ \E range \in ReportRanges :
           response' = ReportsFor(categories, transactions, cycle_start_day, range[1], range[2])
    /\ UNCHANGED <<today, cycle_start_day, cycle, period, categories, transactions, account_books, auto_increment, requests>>

\* reports without a range: the current cycle of today
ReportsCurrentCycle ==
    /\ \E now \in NowDates :
           response' = ReportsOfCycle(categories, transactions, cycle_start_day,
                           calculate_current_cycle_dates(now, cycle_start_day))
    /\ UNCHANGED <<today, cycle_start_day, cycle, period, categories, transactions, account_books, auto_increment, requests>>

ReportNext == TransactionCreate \/ ReportsExplicitRange \/ ReportsCurrentCycle

ReportSpec == ReportInit /\ [][ReportNext]_vars

----------------------------------------------------------------------------
(* The category statistics of a ledger with more categories than the report lists *)

\* the categories of the ledger
NumCategories == 11

\* the categories whose only transaction may be the larger amount
LargeCategories == 3 .. 5

\* the transactions of one of the first two categories, as their amounts
AmountLists == { << >>, <<1>>, <<2>>, <<1, 2>> }

\* the report's range and the dates of the transactions: inside and after it
CategoryRange == <<MkDate(2023, 9, 1), MkDate(2023, 12, 20)>>

CategoryDates == { MkDate(2023, 12, 20), MkDate(2024, 3, 15) }

\* the categories table: the first category of either type, the others expense
\* categories, the second one possibly deleted while transactions reference it
\* (a category delete that ran between the checks and the write of a transaction)
ManyCategories(first_type, second_active) ==
    [id \in 1 .. NumCategories |->
        CategoryRow(id, IF id = 1 THEN first_type ELSE "expense",
                    IF id = 1 THEN NullColor ELSE "#dc3545",
                    IF id = 2 THEN second_active ELSE TRUE)]

\* the rows stored for one category, one per amount
RowsOfCategory(category, date, amounts) ==
    [i \in 1 .. Len(amounts) |->
        [category_id |-> category.id, transaction_date |-> date,
         type |-> category.type, amount |-> amounts[i]]]

RECURSIVE StoredRows(_, _, _, _, _, _)
\* the transactions table after the transactions of the first n categories are stored
StoredRows(cats, first, second, large, third_date, n) ==
    IF n = 0 THEN << >>
    ELSE StoredRows(cats, first, second, large, third_date, n - 1)
             \o RowsOfCategory(cats[n],
                               IF n = 3 THEN third_date ELSE MkDate(2023, 12, 20),
                               IF n = 1 THEN first
                               ELSE IF n = 2 THEN second
                               ELSE IF n \in large THEN <<2>> ELSE <<1>>)

CategoryInit ==
    /\ today \in NowDates
    /\ cycle_start_day = 15
    /\ cycle = NotCalled
    /\ period = NoPeriod
    /\ \E first_type \in TransactionTypes, second_active \in BOOLEAN :
           categories = ManyCategories(first_type, second_active)
    /\ \E first \in AmountLists, second \in AmountLists,
          large \in SUBSET LargeCategories, third_date \in CategoryDates :
           transactions = StoredRows(categories, first, second, large, third_date,
                                     NumCategories)
    /\ response = [kind |-> "none"]
    /\ account_books = << >>
    /\ auto_increment = 1
    /\ requests = << >>

\* reports with ?start_date=..&end_date=.. on the ledger of many categories
ReportsOfManyCategories ==
    /\ response' = ReportsFor(categories, transactions, cycle_start_day,
                              CategoryRange[1], CategoryRange[2])
    /\ UNCHANGED <<today, cycle_start_day, cycle, period, categories, transactions, account_books, auto_increment, requests>>

CategoryNext == ReportsOfManyCategories

CategorySpec == CategoryInit /\ [][CategoryNext]_vars

----------------------------------------------------------------------------
(* Vocabulary of the properties of the cycle calculator *)

\* the day after a date
PlusOneDay(date) ==
    IF date.day < DaysInMonth(date.year, date.month)
    THEN MkDate(date.year, date.month, date.day + 1)
    ELSE IF date.month < 12
         THEN MkDate(date.year, date.month + 1, 1)
         ELSE MkDate(date.year + 1, 1, 1)

\* the start_day date of month m of year y, clamped to the month's last day
ClampedStart(y, m, start_day) ==
    MkDate(y, m, IF start_day > DaysInMonth(y, m) THEN DaysInMonth(y, m) ELSE start_day)

CandidateStart(d, start_day) == ClampedStart(d.year, d.month, start_day)

PrevMonthClampedStart(d, start_day) ==
    IF d.month = 1 THEN ClampedStart(d.year - 1, 12, start_day)
    ELSE ClampedStart(d.year, d.month - 1, start_day)

NextMonthClampedStart(d, start_day) ==
    IF d.month = 12 THEN ClampedStart(d.year + 1, 1, start_day)
    ELSE ClampedStart(d.year, d.month + 1, start_day)

\* the start of the cycle a date lies in, every cycle starting at a clamped start
ClampedCycleStart(d, start_day) ==
    IF DateLT(d, CandidateStart(d, start_day))
    THEN PrevMonthClampedStart(d, start_day)
    ELSE CandidateStart(d, start_day)

RECURSIVE DatesBetween(_, _)
\* the dates s, s + 1 day, ..., e
DatesBetween(s, e) ==
    IF DateLT(e, s) THEN {} ELSE {s} \cup DatesBetween(PlusOneDay(s), e)

RECURSIVE ParseNat(_)
\* the number a sequence of decimal digits denotes
ParseNat(digits) ==
    IF Len(digits) = 0 THEN 0
    ELSE 10 * ParseNat(SubSeq(digits, 1, Len(digits) - 1))
            + (digits[Len(digits)] - CharZero)

\* the position of the first '-' of a period key
DashAt(key) == CHOOSE i \in 1 .. Len(key) :
                   key[i] = CharDash /\ \A j \in 1 .. (i - 1) : key[j] # CharDash

\* the year and the month a period key "YYYY-MM (..)" encodes
KeyYear(key) == ParseNat(SubSeq(key, 1, DashAt(key) - 1))

\* the position of the first ' ' of a period key
SpaceAt(key) == CHOOSE i \in 1 .. Len(key) :
                    key[i] = CharSpace /\ \A j \in 1 .. (i - 1) : key[j] # CharSpace

KeyMonth(key) == ParseNat(SubSeq(key, DashAt(key) + 1, SpaceAt(key) - 1))

\* chronological (year, month) order of period keys
KeyBefore(k1, k2) ==
    \/ KeyYear(k1) < KeyYear(k2)
    \/ KeyYear(k1) = KeyYear(k2) /\ KeyMonth(k1) < KeyMonth(k2)

----------------------------------------------------------------------------
(* Properties of the cycle calculator, checked under Spec *)

\* C1: for every start_day in 1..31 and every reference date d, the resolved cycle
\* contains d: cycle_start <= d <= cycle_end.
C1_CycleContainsReference ==
    cycle # NotCalled =>
        /\ cycle.status = "ok"
        /\ DateLE(cycle.start_date, today)
        /\ DateLE(today, cycle.end_date)

\* C2: when the reference date is earlier than the clamped start_day date of its own
\* month (candidate_start), the cycle starts at the start_day date of the previous
\* month clamped to that month's last day and ends at candidate_start - 1 day.
C2_PreviousCycle ==
    (cycle # NotCalled /\ DateLT(today, CandidateStart(today, cycle_start_day))) =>
        cycle = CycleOk(PrevMonthClampedStart(today, cycle_start_day),
                        MinusOneDay(CandidateStart(today, cycle_start_day)))

\* C3: when the reference date is on or after candidate_start, the cycle starts at
\* candidate_start and ends one day before the clamped start_day date of the
\* following month (January of the next year after December).
C3_CurrentCycle ==
    (cycle # NotCalled /\ ~DateLT(today, CandidateStart(today, cycle_start_day))) =>
        cycle = CycleOk(CandidateStart(today, cycle_start_day),
                        MinusOneDay(NextMonthClampedStart(today, cycle_start_day)))

\* C3 witness: start day 31 on 2023-01-31, the cycle ends on 2023-02-27 because the
\* next start is clamped to 2023-02-28
C3_Witness ==
    /\ today = MkDate(2023, 1, 31)
    /\ cycle_start_day = 31
    /\ cycle = CycleOk(MkDate(2023, 1, 31), MkDate(2023, 2, 27))

\* C4: the cycle resolved for cycle_end + 1 day starts exactly at cycle_end + 1 day,
\* so consecutive cycles leave no gap.
C4_NoGap ==
    cycle.status = "ok" =>
        LET next == calculate_current_cycle_dates(PlusOneDay(cycle.end_date),
                                                  cycle_start_day)
        IN  next.status = "ok" /\ next.start_date = PlusOneDay(cycle.end_date)

\* C4 witness: start day 31 on 2023-02-15: the cycle ends on 2023-02-27 and the next
\* cycle starts on the clamped 2023-02-28
C4_Witness ==
    /\ today = MkDate(2023, 2, 15)
    /\ cycle = CycleOk(MkDate(2023, 1, 31), MkDate(2023, 2, 27))
    /\ calculate_current_cycle_dates(MkDate(2023, 2, 28), cycle_start_day).start_date
           = MkDate(2023, 2, 28)

\* C5: cycles do not overlap: every date d' with cycle_start <= d' <= cycle_end
\* resolves to the same pair (cycle_start, cycle_end).
C5_NoOverlap ==
    cycle.status = "ok" =>
        \A d2 \in DatesBetween(cycle.start_date, cycle.end_date) :
            calculate_current_cycle_dates(d2, cycle_start_day) = cycle

\* C6: the labeler is monotonic: a later date of a different cycle has a strictly
\* later period key under (year, month) ordering.
C6_LabelMonotonic ==
    period.status = "ok" =>
        \A d2 \in Dates :
            (/\ DateLT(today, d2)
             /\ ClampedCycleStart(today, cycle_start_day)
                    # ClampedCycleStart(d2, cycle_start_day))
            => /\ calculate_cycle_period(d2, cycle_start_day).status = "ok"
               /\ KeyBefore(period.key, calculate_cycle_period(d2, cycle_start_day).key)

\* C7: the period key identifies the cycle: two dates receive the same key exactly
\* when they lie in the same cycle (same clamped cycle start).
C7_KeyIdentifiesCycle ==
    period.status = "ok" =>
        \A d2 \in Dates :
            (calculate_cycle_period(d2, cycle_start_day) = period)
                <=> (ClampedCycleStart(d2, cycle_start_day)
                        = ClampedCycleStart(today, cycle_start_day))

\* C8: the labeler and the resolver agree: the (year, month) encoded in the period key
\* is the year and month of the resolved cycle_start.
C8_LabelerAgreesWithResolver ==
    (cycle # NotCalled /\ period # NoPeriod) =>
        /\ cycle.status = "ok"
        /\ period.status = "ok"
        /\ KeyYear(period.key) = cycle.start_date.year
        /\ KeyMonth(period.key) = cycle.start_date.month

\* C8 witness: start day 31 on 2023-02-15, both place the date in the cycle of
\* January 2023
C8_Witness ==
    /\ today = MkDate(2023, 2, 15)
    /\ cycle_start_day = 31
    /\ cycle.start_date = MkDate(2023, 1, 31)
    /\ period = PeriodOk(FormatPeriod(MkDate(2023, 1, 31), 31))

----------------------------------------------------------------------------
(* Properties of the per-period aggregation, checked under ReportSpec *)

\* the stored rows the range of the last report selects
RowsOfReport ==
    { i \in 1 .. Len(transactions) :
        InRange(transactions[i], response.start_date, response.end_date) }

\* the period key the labeler gives a stored row
PeriodOfRow(i) ==
    calculate_cycle_period(transactions[i].transaction_date, cycle_start_day).key

\* the rows of the report that map to a period, all of them or those of one type
RowsOfPeriod(key) == { i \in RowsOfReport : PeriodOfRow(i) = key }

RowsOfPeriodAndType(key, type) ==
    { i \in RowsOfPeriod(key) : transactions[i].type = type }

RECURSIVE SumAmounts(_)
\* the exact sum of the amounts of a set of stored rows
SumAmounts(rows) ==
    IF rows = {} THEN 0
    ELSE LET i == CHOOSE r \in rows : TRUE
         IN  transactions[i].amount + SumAmounts(rows \ {i})

\* C9: get_monthly_trends and get_monthly_details emit their buckets in ascending
\* chronological order of cycle start, also across a year boundary.
C9_BucketsChronological ==
    response.kind = "reports" =>
        /\ \A i, j \in DOMAIN response.monthly_trends :
               i < j => KeyBefore(response.monthly_trends[i].month,
                                  response.monthly_trends[j].month)
        /\ \A i, j \in DOMAIN response.monthly_details :
               i < j => KeyBefore(response.monthly_details[i].date,
                                  response.monthly_details[j].date)

\* C9 witness: a report with one bucket in 2023 and the next one in 2024
C9_Witness ==
    /\ response.kind = "reports"
    /\ Len(response.monthly_trends) = 2
    /\ Len(response.monthly_details) = 2
    /\ KeyYear(response.monthly_trends[1].month) = 2023
    /\ KeyYear(response.monthly_trends[2].month) = 2024
    /\ KeyYear(response.monthly_details[1].date) = 2023
    /\ KeyYear(response.monthly_details[2].date) = 2024

\* C10: every bucket's income is the exact sum of the income rows mapped to its
\* period and its expense the exact sum of the expense rows; in the monthly details
\* balance = income - expense and transaction_count is the number of rows mapped.
C10_BucketSums ==
    response.kind = "reports" =>
        /\ { response.monthly_trends[n].month : n \in DOMAIN response.monthly_trends }
               = { PeriodOfRow(i) : i \in RowsOfReport }
        /\ { response.monthly_details[n].date : n \in DOMAIN response.monthly_details }
               = { PeriodOfRow(i) : i \in RowsOfReport }
        /\ Len(response.monthly_trends) = Cardinality({ PeriodOfRow(i) : i \in RowsOfReport })
        /\ Len(response.monthly_details) = Cardinality({ PeriodOfRow(i) : i \in RowsOfReport })
        /\ \A n \in DOMAIN response.monthly_trends :
               LET b == response.monthly_trends[n] IN
               /\ b.income = SumAmounts(RowsOfPeriodAndType(b.month, "income"))
               /\ b.expense = SumAmounts(RowsOfPeriodAndType(b.month, "expense"))
        /\ \A n \in DOMAIN response.monthly_details :
               LET b == response.monthly_details[n] IN
               /\ b.income = SumAmounts(RowsOfPeriodAndType(b.date, "income"))
               /\ b.expense = SumAmounts(RowsOfPeriodAndType(b.date, "expense"))
               /\ b.balance = b.income - b.expense
               /\ b.transaction_count = Cardinality(RowsOfPeriod(b.date))

\* C10 witness: a bucket that sums two rows of different months, one of them an
\* expense larger than the income
C10_Witness ==
    /\ response.kind = "reports"
    /\ cycle_start_day = 15
    /\ \E n \in DOMAIN response.monthly_details :
           /\ response.monthly_details[n].transaction_count = 2
           /\ response.monthly_details[n].income = 1
           /\ response.monthly_details[n].expense = 2
           /\ response.monthly_details[n].balance = -1
           /\ response.monthly_trends[n].income = 1
           /\ response.monthly_trends[n].expense = 2
           /\ \E i, j \in RowsOfPeriod(response.monthly_details[n].date) :
                  transactions[i].transaction_date.month
                      # transactions[j].transaction_date.month

----------------------------------------------------------------------------
(* Vocabulary of the properties of the category statistics *)

\* the categories of one type that are not deleted
GroupOfType(type) ==
    { id \in 1 .. Len(categories) : categories[id].type = type /\ categories[id].is_active }

\* the stored rows of the report's range of one category, and of one group
RowsOfCategoryInReport(id) == { i \in RowsOfReport : transactions[i].category_id = id }

RowsOfGroup(type) ==
    { i \in RowsOfReport : transactions[i].category_id \in GroupOfType(type) }

\* the category list of the report for one type
StatsOfType(type) ==
    IF type = "expense" THEN response.expense_categories ELSE response.income_categories

\* the categories of a group that the report does not list
OmittedOfType(type) ==
    { id \in GroupOfType(type) :
        \A n \in DOMAIN StatsOfType(type) : StatsOfType(type)[n].name # FormatInt(id) }

\* C11: the percentage of every reported category is round(amount / T * 100), T being
\* the total of all the categories of its type over the range, the categories that
\* are not among the reported ones included.
C11_PercentageOfGroupTotal ==
    response.kind = "reports" =>
        \A type \in TransactionTypes : \A n \in DOMAIN StatsOfType(type) :
            StatsOfType(type)[n].percentage
                = RoundF64(StatsOfType(type)[n].amount * 100, SumAmounts(RowsOfGroup(type)))

\* C12: get_category_stats returns at most 10 categories, in non-increasing order of
\* their summed amounts, each with the sum of its rows of the range, and no omitted
\* category of the type has a strictly larger sum than a returned one.
C12_TopTen ==
    response.kind = "reports" =>
        \A type \in TransactionTypes :
            /\ Len(StatsOfType(type)) <= 10
            /\ \A i, j \in DOMAIN StatsOfType(type) :
                   i < j => StatsOfType(type)[i].amount >= StatsOfType(type)[j].amount
            /\ \A n \in DOMAIN StatsOfType(type) :
                   \E id \in GroupOfType(type) :
                       /\ StatsOfType(type)[n].name = FormatInt(id)
                       /\ StatsOfType(type)[n].amount = SumAmounts(RowsOfCategoryInReport(id))
                       /\ StatsOfType(type)[n].transaction_count
                              = Cardinality(RowsOfCategoryInReport(id))
            /\ \A id \in OmittedOfType(type) : \A n \in DOMAIN StatsOfType(type) :
                   SumAmounts(RowsOfCategoryInReport(id)) <= StatsOfType(type)[n].amount

\* C12 witness: ten expense categories are listed, from a sum of 3 down to a sum of
\* 1, and an expense category with transactions in the range is left out
C12_Witness ==
    /\ response.kind = "reports"
    /\ Len(response.expense_categories) = 10
    /\ response.expense_categories[1].amount = 3
    /\ response.expense_categories[10].amount = 1
    /\ \E id \in OmittedOfType("expense") : RowsOfCategoryInReport(id) # {}

----------------------------------------------------------------------------
(* Vocabulary of the properties of the summary of the report *)

\* the stored rows of the report's range of one type
RowsOfType(type) == { i \in RowsOfReport : transactions[i].type = type }

\* the number of days of the inclusive range of the report
DaysOfReport ==
    Cardinality({ d \in { MkDate(y, m, dd) : y \in response.start_date.year .. response.end_date.year,
                                             m \in 1 .. 12, dd \in 1 .. 31 } :
                    /\ d.day <= DaysInMonth(d.year, d.month)
                    /\ DateLE(response.start_date, d)
                    /\ DateLE(d, response.end_date) })

\* the divisor max(1, N)
AverageDivisor == IF DaysOfReport < 1 THEN 1 ELSE DaysOfReport

\* C14: average_daily_expense is total_expense / max(1, N), N being the number of days
\* of the inclusive range, to the nearest hundredth; over a single day it is
\* total_expense itself.
C14_AverageOverInclusiveDays ==
    (response.kind = "reports" /\ DateLE(response.start_date, response.end_date)) =>
        /\ 2 * Abs(response.average_daily_expense * AverageDivisor - response.total_expense)
               <= AverageDivisor
        /\ response.start_date = response.end_date =>
               response.average_daily_expense = response.total_expense

\* C15: average_daily_expense is the quotient of total_expense by the day count
\* rounded half-up to hundredths: a quotient halfway between two hundredths goes to
\* the larger one.
C15_AverageRoundedHalfUp ==
    (response.kind = "reports"
         /\ num_days(response.end_date, response.start_date) > 0) =>
        response.average_daily_expense
            = (2 * response.total_expense + num_days(response.end_date, response.start_date))
                  \div (2 * num_days(response.end_date, response.start_date))

\* C16: net_balance = total_income - total_expense, is_positive_balance holds exactly
\* when net_balance >= 0, and net_balance_abs = |net_balance|, the totals being the
\* sums of the rows of the range.
C16_NetBalance ==
    response.kind = "reports" =>
        /\ response.total_income = SumAmounts(RowsOfType("income"))
        /\ response.total_expense = SumAmounts(RowsOfType("expense"))
        /\ response.net_balance = response.total_income - response.total_expense
        /\ response.is_positive_balance <=> (response.net_balance >= 0)
        /\ response.net_balance_abs >= 0
        /\ response.net_balance_abs \in {response.net_balance, 0 - response.net_balance}

\* C16 witness: a report with more expense than income
C16_Witness ==
    /\ response.kind = "reports"
    /\ response.total_income = 1
    /\ response.total_expense = 2
    /\ response.net_balance = -1
    /\ ~response.is_positive_balance
    /\ response.net_balance_abs = 1

\* C17: a report over a valid range without transactions has zero totals, zero net
\* balance, zero average and empty per-period, per-category and per-day lists, and
\* no request ends in an error.
C17_EmptyRangeAllZero ==
    /\ response.kind # "panic"
    /\ (response.kind = "reports"
            /\ DateLE(response.start_date, response.end_date)
            /\ RowsOfReport = {}) =>
           /\ response.total_income = 0
           /\ response.total_expense = 0
           /\ response.net_balance = 0
           /\ response.average_daily_expense = 0
           /\ response.monthly_trends = << >>
           /\ response.monthly_details = << >>
           /\ response.expense_categories = << >>
           /\ response.income_categories = << >>
           /\ response.daily_expenses = << >>

\* C17 witness: a report over three days on a ledger whose transactions are all
\* outside them
C17_Witness ==
    /\ response.kind = "reports"
    /\ DateLT(response.start_date, response.end_date)
    /\ Len(transactions) > 0
    /\ RowsOfReport = {}

\* C19: no report is produced for a range whose end_date is before its start_date.
C19_ReversedRangeRejected ==
    response.kind = "reports" => ~DateLT(response.end_date, response.start_date)

----------------------------------------------------------------------------
(* Properties of the arguments of the cycle calculator *)

\* C18: a cycle_start_day outside 1..31 is rejected by both calculators with an
\* InvalidConfiguration error: no cycle or period is computed from it and no call
\* panics.
C18_OutOfRangeRejected ==
    cycle_start_day \notin 1 .. 31 =>
        /\ cycle # NotCalled => cycle.status = "invalid_configuration"
        /\ period # NoPeriod => period.status = "invalid_configuration"

\* C20: for every start day in 1..31 and every date both calculators return a
\* result: no unwrap is reached on an invalid date.
C20_NeverPanics ==
    cycle_start_day \in 1 .. 31 =>
        /\ cycle # NotCalled =>
               /\ cycle.status = "ok"
               /\ cycle.start_date \in Dates \cup { MkDate(2022, 12, d) : d \in 1 .. 31 }
               /\ cycle.end_date.day \in 1 .. DaysInMonth(cycle.end_date.year,
                                                          cycle.end_date.month)
        /\ period # NoPeriod => period.status = "ok" /\ Len(period.key) > 0

\* C20 witness: both calculators have answered for the 29th of February of a leap
\* year with start day 31
C20_Witness ==
    /\ today = MkDate(2024, 2, 29)
    /\ cycle_start_day = 31
    /\ cycle.status = "ok"
    /\ period.status = "ok"

----------------------------------------------------------------------------
(* The tables of several users' ledgers and the queries of the models.  Columns that *)
(* no handler reads back (names of ledgers, descriptions, icons, tags, timestamps)  *)
(* are left out; no query fails.                                                    *)

Users == {1, 2}

\* anyhow::Result of a query: Ok with the rows found
Found(rows) == [is_err |-> FALSE, rows |-> rows]

\* AccountBook::find_by_id: WHERE id = ? AND user_id = ? AND is_active = TRUE
AccountBook_find_by_id(table, id, user_id) ==
    Found({ table[i] : i \in { k \in 1 .. Len(table) :
                                  /\ table[k].id = id
                                  /\ table[k].user_id = user_id
                                  /\ table[k].is_active } })

\* AccountBook::find_by_user: WHERE user_id = ? AND is_active = TRUE
AccountBook_find_by_user(table, user_id) ==
    SelectSeq(table, LAMBDA b : b.user_id = user_id /\ b.is_active)

\* AccountBook::create: INSERT INTO account_books
AccountBook_create(table, user_id, currency, start_day) ==
    Append(table, [id |-> Len(table) + 1, user_id |-> user_id, currency |-> currency,
                   cycle_start_day |-> start_day, is_active |-> TRUE])

\* AccountBook::update: UPDATE account_books SET .. WHERE id = ? AND user_id = ?
AccountBook_update(table, id, user_id, currency, start_day) ==
    [i \in 1 .. Len(table) |->
        IF table[i].id = id /\ table[i].user_id = user_id
        THEN [table[i] EXCEPT !.currency = currency, !.cycle_start_day = start_day]
        ELSE table[i]]

\* AccountBook::delete: UPDATE account_books SET is_active = FALSE WHERE id = ? AND user_id = ?
AccountBook_delete(table, id, user_id) ==
    [i \in 1 .. Len(table) |->
        IF table[i].id = id /\ table[i].user_id = user_id
        THEN [table[i] EXCEPT !.is_active = FALSE]
        ELSE table[i]]

\* Category::find_by_account_book: WHERE account_book_id = ? AND is_active = TRUE
Category_find_by_account_book(table, account_book_id) ==
    SelectSeq(table, LAMBDA c : c.account_book_id = account_book_id /\ c.is_active)

\* Category::create: INSERT INTO categories
Category_create(table, account_book_id, name, type) ==
    Append(table, [id |-> Len(table) + 1, account_book_id |-> account_book_id,
                   name |-> name, type |-> type, color |-> NullColor, is_active |-> TRUE])

\* Category::update: UPDATE categories SET name = ?, icon = ?, color = ? WHERE id = ?
Category_update(table, id, name, color) ==
    [i \in 1 .. Len(table) |->
        IF table[i].id = id THEN [table[i] EXCEPT !.name = name, !.color = color]
        ELSE table[i]]

\* a delete of the category that removes the row
Category_delete_Hard(table, id) == SelectSeq(table, LAMBDA c : c.id # id)

\* Category::delete: UPDATE categories SET is_active = FALSE WHERE id = ?
Category_delete(table, id) ==
    [i \in 1 .. Len(table) |->
        IF table[i].id = id THEN [table[i] EXCEPT !.is_active = FALSE] ELSE table[i]]

\* Transaction::find_by_id: SELECT * FROM transactions WHERE id = ?
Transaction_find_by_id(table, id) ==
    { table[i] : i \in { k \in 1 .. Len(table) : table[k].id = id } }

\* Transaction::create: INSERT INTO transactions, id being the AUTO_INCREMENT value
Transaction_create(table, id, account_book_id, category_id, amount, type, date) ==
    Append(table, [id |-> id, account_book_id |-> account_book_id,
                   category_id |-> category_id, transaction_date |-> date,
                   type |-> type, amount |-> amount])

\* Transaction::update: UPDATE transactions SET category_id = ?, amount = ?, .. WHERE id = ?
Transaction_update(table, id, category_id, amount, date) ==
    [i \in 1 .. Len(table) |->
        IF table[i].id = id
        THEN [table[i] EXCEPT !.category_id = category_id, !.amount = amount,
                              !.transaction_date = date]
        ELSE table[i]]

\* Transaction::delete: DELETE FROM transactions WHERE id = ?
Transaction_delete(table, id) == SelectSeq(table, LAMBDA t : t.id # id)

\* SELECT COUNT(*) FROM transactions WHERE category_id = ?
CountOfCategory(table, category_id) ==
    Len(SelectSeq(table, LAMBDA t : t.category_id = category_id))

----------------------------------------------------------------------------
(* The handlers of categories and transactions.  A handler's checks are one read of *)
(* the tables and its write is a second step; a request that runs alone does both   *)
(* at once.  Dates and category names of the forms are always well-formed.          *)

\* most categories the categories table holds
MaxCategories == 2
MaxTransactions == 1

CharDot == 46

\* a non-empty sequence of decimal digits
IsDigits(s) == Len(s) > 0 /\ \A i \in 1 .. Len(s) : s[i] \in CharZero .. (CharZero + 9)

ParseOk(v) == [ok |-> TRUE, value |-> v]

ParseErr == [ok |-> FALSE, value |-> 0]

\* the hundredths of an unsigned decimal literal with at most two decimals
ParseUnsigned(s, dots) ==
    IF dots = {} THEN (IF IsDigits(s) THEN ParseOk(100 * ParseNat(s)) ELSE ParseErr)
    ELSE IF Cardinality(dots) = 1
              /\ \A i \in dots : /\ IsDigits(SubSeq(s, 1, i - 1))
                                 /\ IsDigits(SubSeq(s, i + 1, Len(s)))
                                 /\ Len(s) - i <= 2
         THEN LET i == CHOOSE k \in dots : TRUE
              IN  ParseOk(100 * ParseNat(SubSeq(s, 1, i - 1))
                              + (IF Len(s) - i = 1 THEN 10 ELSE 1)
                                    * ParseNat(SubSeq(s, i + 1, Len(s))))
         ELSE ParseErr

\* form.amount.parse::<Decimal>(), in hundredths
ParseDecimal(s) ==
    IF Len(s) > 0 /\ s[1] = CharDash
    THEN [ParseUnsigned(Tail(s), { i \in 1 .. Len(Tail(s)) : Tail(s)[i] = CharDot })
              EXCEPT !.value = 0 - @]
    ELSE ParseUnsigned(s, { i \in 1 .. Len(s) : s[i] = CharDot })

\* Ok(amt) if amt > Decimal::ZERO, with zero accepted as well
AmountAccepted_NonNegative(parsed) == parsed.ok /\ parsed.value >= 0

\* Ok(amt) if amt > Decimal::ZERO
AmountAccepted(parsed) == parsed.ok /\ parsed.value > 0

\* the amounts of the forms: "0.01", "0.02", "0", "-0.01" and "a"
AmountInputs ==
    { <<48, 46, 48, 49>>, <<48, 46, 48, 50>>, <<48>>, <<45, 48, 46, 48, 49>>, <<97>> }

CategoryNames == {"food", "misc"}

\* the date of the forms
FormDate == MkDate(2023, 12, 20)

\* a request: its handler, the user of the session, the ledger and the record of the
\* path, the form, and the position of the handler
Request(handler, user_id, account_book_id, id, form, pc) ==
    [handler |-> handler, user_id |-> user_id, account_book_id |-> account_book_id,
     id |-> id, form |-> form, pc |-> pc]

NoForm == [none |-> TRUE]

\* the Redirect a handler answers with: to a success or to an error message
Redirected(success) == [kind |-> "redirect", success |-> success]

\* category::create up to Category::create
CategoryCreateChecks(books, r) ==
    /\ AccountBook_find_by_id(books, r.account_book_id, r.user_id).rows # {}
    /\ r.form.category_type \in TransactionTypes

\* category::update up to Category::update, and category::delete up to its count
CategoryOfBookChecks(books, cats, r) ==
    /\ AccountBook_find_by_id(books, r.account_book_id, r.user_id).rows # {}
    /\ \E category \in category_find_by_id(cats, r.id) :
           category.account_book_id = r.account_book_id

\* category::delete without its count of the transactions of the category
CategoryDeleteChecks_NoCount(books, cats, txs, r) ==
    CategoryOfBookChecks(books, cats, r)

\* category::delete up to Category::delete
CategoryDeleteChecks(books, cats, txs, r) ==
    /\ CategoryOfBookChecks(books, cats, r)
    /\ ~(CountOfCategory(txs, r.id) > 0)

\* transaction::create up to Transaction::create
TransactionCreateChecks(books, cats, r) ==
    /\ ~AccountBook_find_by_id(books, r.account_book_id, r.user_id).is_err
    /\ AmountAccepted(ParseDecimal(r.form.amount))
    /\ r.form.transaction_type \in TransactionTypes
    /\ \E category \in category_find_by_id(cats, r.form.category_id) :
           /\ category.account_book_id = r.account_book_id
           /\ category.type = r.form.transaction_type

\* transaction::delete up to Transaction::delete
TransactionDeleteChecks(books, txs, r) ==
    /\ ~AccountBook_find_by_id(books, r.account_book_id, r.user_id).is_err
    /\ \E transaction \in Transaction_find_by_id(txs, r.id) :
           transaction.account_book_id = r.account_book_id

\* transaction::update up to Transaction::update
TransactionUpdateChecks(books, cats, txs, r) ==
    /\ TransactionDeleteChecks(books, txs, r)
    /\ AmountAccepted(ParseDecimal(r.form.amount))
    /\ \E category \in category_find_by_id(cats, r.form.category_id) :
           category.account_book_id = r.account_book_id

\* account_book::create up to AccountBook::create: form.validate()
AccountBookCreateChecks(r) ==
    /\ Len(r.form.currency) = 3
    /\ r.form.cycle_start_day >= 1 /\ r.form.cycle_start_day <= 31

\* account_book::update without its test of the start day
AccountBookUpdateChecks_AnyDay(books, r) ==
    AccountBook_find_by_id(books, r.id, r.user_id).rows # {}

\* account_book::update up to AccountBook::update
AccountBookUpdateChecks(books, r) ==
    /\ ~(r.form.cycle_start_day < 1 \/ r.form.cycle_start_day > 31)
    /\ AccountBook_find_by_id(books, r.id, r.user_id).rows # {}

\* everything a handler checks before it writes
Checks(books, cats, txs, r) ==
    CASE r.handler = "account_book::create" -> AccountBookCreateChecks(r)
      [] r.handler = "account_book::update" -> AccountBookUpdateChecks(books, r)
      [] r.handler = "account_book::delete" ->
             AccountBook_find_by_id(books, r.id, r.user_id).rows # {}
      [] r.handler = "category::create" -> CategoryCreateChecks(books, r)
      [] r.handler = "category::update" -> CategoryOfBookChecks(books, cats, r)
      [] r.handler = "category::delete" -> CategoryDeleteChecks(books, cats, txs, r)
      [] r.handler = "transaction::create" -> TransactionCreateChecks(books, cats, r)
      [] r.handler = "transaction::update" -> TransactionUpdateChecks(books, cats, txs, r)
      [] r.handler = "transaction::delete" -> TransactionDeleteChecks(books, txs, r)

\* the write of a handler whose checks passed
Write(r) ==
    /\ account_books' =
           CASE r.handler = "account_book::create" ->
                    AccountBook_create(account_books, r.user_id, r.form.currency,
                                       r.form.cycle_start_day)
             [] r.handler = "account_book::update" ->
                    AccountBook_update(account_books, r.id, r.user_id, r.form.currency,
                                       r.form.cycle_start_day)
             [] r.handler = "account_book::delete" ->
                    AccountBook_delete(account_books, r.id, r.user_id)
             [] OTHER -> account_books
    /\ categories' =
           CASE r.handler = "category::create" ->
                    Category_create(categories, r.account_book_id, r.form.name,
                                    r.form.category_type)
             [] r.handler = "category::update" ->
                    Category_update(categories, r.id, r.form.name, r.form.color)
             [] r.handler = "category::delete" -> Category_delete(categories, r.id)
             [] OTHER -> categories
    /\ transactions' =
           CASE r.handler = "transaction::create" ->
                    Transaction_create(transactions, auto_increment, r.account_book_id,
                                       r.form.category_id, ParseDecimal(r.form.amount).value,
                                       r.form.transaction_type, r.form.transaction_date)
             [] r.handler = "transaction::update" ->
                    Transaction_update(transactions, r.id, r.form.category_id,
                                       ParseDecimal(r.form.amount).value,
                                       r.form.transaction_date)
             [] r.handler = "transaction::delete" -> Transaction_delete(transactions, r.id)
             [] OTHER -> transactions
    /\ auto_increment' =
           IF r.handler = "transaction::create" THEN auto_increment + 1 ELSE auto_increment

\* a request handled alone: the checks, then the write or the refusal
Handle(r) ==
    /\ requests' = <<r>>
    /\ IF Checks(account_books, categories, transactions, r)
       THEN Write(r) /\ response' = Redirected(TRUE)
       ELSE /\ UNCHANGED <<account_books, categories, transactions, auto_increment>>
            /\ response' = Redirected(FALSE)
    /\ UNCHANGED <<today, cycle_start_day, cycle, period>>

\* the category ids that requests name: every id given so far, at least 1 .. MaxCategories
CategoryIds ==
    1 .. (IF Len(categories) > MaxCategories THEN Len(categories) ELSE MaxCategories)

\* the transaction ids that requests name: every id given so far, at least 1 .. MaxTransactions
TransactionIds ==
    1 .. (IF auto_increment - 1 > MaxTransactions THEN auto_increment - 1
          ELSE MaxTransactions)

category_create ==
    /\ Len(categories) < MaxCategories
    /\ \E user_id \in Users, account_book_id \in 1 .. Len(account_books),
          name \in CategoryNames, type \in TransactionTypes :
           Handle(Request("category::create", user_id, account_book_id, 0,
                          [name |-> name, category_type |-> type], "done"))

category_update ==
    \E user_id \in Users, account_book_id \in 1 .. Len(account_books),
       category_id \in CategoryIds, name \in CategoryNames :
        Handle(Request("category::update", user_id, account_book_id, category_id,
                       [name |-> name, color |-> NullColor], "done"))

category_delete ==
    \E user_id \in Users, account_book_id \in 1 .. Len(account_books),
       category_id \in CategoryIds :
        Handle(Request("category::delete", user_id, account_book_id, category_id,
                       NoForm, "done"))

transaction_create(amounts) ==
    /\ auto_increment <= MaxTransactions
    /\ \E user_id \in Users, account_book_id \in 1 .. Len(account_books),
          category_id \in CategoryIds, amount \in amounts,
          type \in TransactionTypes :
           Handle(Request("transaction::create", user_id, account_book_id, 0,
                          [category_id |-> category_id, amount |-> amount,
                           transaction_type |-> type, transaction_date |-> FormDate],
                          "done"))

transaction_update(amounts) ==
    \E user_id \in Users, account_book_id \in 1 .. Len(account_books),
       transaction_id \in TransactionIds, category_id \in CategoryIds,
       amount \in amounts :
        Handle(Request("transaction::update", user_id, account_book_id, transaction_id,
                       [category_id |-> category_id, amount |-> amount,
                        transaction_date |-> FormDate], "done"))

transaction_delete ==
    \E user_id \in Users, account_book_id \in 1 .. Len(account_books),
       transaction_id \in TransactionIds :
        Handle(Request("transaction::delete", user_id, account_book_id, transaction_id,
                       NoForm, "done"))

account_book_delete ==
    \E user_id \in Users, id \in 1 .. Len(account_books) :
        Handle(Request("account_book::delete", user_id, id, id, NoForm, "done"))

\* the amounts of the forms where the ledgers are what varies: "0.01"
LedgerAmounts == { <<48, 46, 48, 49>> }

\* two ledgers of two users, created with the defaults of the form
TwoLedgers ==
    AccountBook_create(AccountBook_create(<< >>, 1, "CNY", 1), 2, "CNY", 1)

LedgerInit ==
    /\ today = FormDate
    /\ cycle_start_day = 1
    /\ cycle = NotCalled
    /\ period = NoPeriod
    /\ account_books = TwoLedgers
    /\ categories = << >>
    /\ transactions = << >>
    /\ auto_increment = 1
    /\ requests = << >>
    /\ response = [kind |-> "none"]

LedgerNext ==
    \/ category_create \/ category_update \/ category_delete
    \/ transaction_create(LedgerAmounts) \/ transaction_update(LedgerAmounts)
    \/ transaction_delete
    \/ account_book_delete

LedgerSpec == LedgerInit /\ [][LedgerNext]_vars

\* one ledger, and forms with every kind of amount
AmountInit ==
    /\ today = FormDate
    /\ cycle_start_day = 1
    /\ cycle = NotCalled
    /\ period = NoPeriod
    /\ account_books = AccountBook_create(<< >>, 1, "CNY", 1)
    /\ categories = << >>
    /\ transactions = << >>
    /\ auto_increment = 1
    /\ requests = << >>
    /\ response = [kind |-> "none"]

AmountNext ==
    \/ category_create
    \/ transaction_create(AmountInputs) \/ transaction_update(AmountInputs)
    \/ transaction_delete

AmountSpec == AmountInit /\ [][AmountNext]_vars

\* ---------------------------------------------------------------------------
\* Claims about the ledgers, categories and transactions
\* ---------------------------------------------------------------------------

\* the request that the step has handled
Handled == requests'[1]

\* the ledger named in the request is an active ledger of the requesting user
OwnsActiveLedger(books, r) ==
    \E i \in 1 .. Len(books) :
        /\ books[i].id = r.account_book_id
        /\ books[i].user_id = r.user_id
        /\ books[i].is_active

\* C21: a create, update or delete of a category or a transaction takes effect
\* only if the ledger named in the request is an active ledger owned by the
\* requesting user; any other request leaves categories and transactions unchanged.
C21_OnlyOwnerWrites ==
    [][(categories' # categories \/ transactions' # transactions)
           => OwnsActiveLedger(account_books, Handled)]_vars

\* C22: every stored transaction has the type of the category it references.
C22_TypeOfCategory ==
    \A i \in 1 .. Len(transactions), k \in 1 .. Len(categories) :
        categories[k].id = transactions[i].category_id
            => categories[k].type = transactions[i].type

\* ---------------------------------------------------------------------------
\* The handlers of ledgers
\* ---------------------------------------------------------------------------

MaxLedgers == 2

\* currency codes of the forms: three characters, and two
Currencies == {"CNY", "US"}

\* start days of the forms, in and out of 1 ..= 31
FormStartDays == {0, 1, 31, 32}

\* the ledger ids that requests name: every id given so far, at least 1 .. MaxLedgers
LedgerIds ==
    1 .. (IF Len(account_books) > MaxLedgers THEN Len(account_books) ELSE MaxLedgers)

account_book_create ==
    /\ Len(account_books) < MaxLedgers
    /\ \E user_id \in Users, currency \in Currencies, start_day \in FormStartDays :
           Handle(Request("account_book::create", user_id, 0, 0,
                          [currency |-> currency, cycle_start_day |-> start_day], "done"))

account_book_update ==
    \E user_id \in Users, id \in LedgerIds, currency \in Currencies,
       start_day \in FormStartDays :
        Handle(Request("account_book::update", user_id, id, id,
                       [currency |-> currency, cycle_start_day |-> start_day], "done"))

AccountBookInit ==
    /\ today = FormDate
    /\ cycle_start_day = 1
    /\ cycle = NotCalled
    /\ period = NoPeriod
    /\ account_books = << >>
    /\ categories = << >>
    /\ transactions = << >>
    /\ auto_increment = 1
    /\ requests = << >>
    /\ response = [kind |-> "none"]

AccountBookNext ==
    account_book_create \/ account_book_update \/ account_book_delete

AccountBookSpec == AccountBookInit /\ [][AccountBookNext]_vars

\* the start day of every stored ledger is in 1 .. 31
StartDaysInRange(books) ==
    \A i \in 1 .. Len(books) :
        books[i].cycle_start_day >= 1 /\ books[i].cycle_start_day <= 31

\* a ledger create or update whose start day is outside 1 .. 31
StartDayOutOfRange(r) ==
    /\ r.handler \in {"account_book::create", "account_book::update"}
    /\ r.form.cycle_start_day \notin 1 .. 31

\* C23: after any sequence of ledger create and update requests every stored
\* ledger has a cycle_start_day in 1 .. 31; a create or update with a value
\* outside that range is refused and leaves the stored ledgers unchanged.
C23_StartDayInRange ==
    [][/\ StartDaysInRange(account_books')
       /\ StartDayOutOfRange(Handled)
              => (account_books' = account_books /\ ~response'.success)]_vars

\* an update of a stored ledger by its owner asked for day 32 and was refused,
\* in a table that holds a ledger updated to day 31
C23_Witness ==
    /\ Len(requests) = 1
    /\ requests[1].handler = "account_book::update"
    /\ requests[1].form.cycle_start_day = 32
    /\ ~response.success
    /\ \E i \in 1 .. Len(account_books) :
           /\ account_books[i].id = requests[1].id
           /\ account_books[i].user_id = requests[1].user_id
           /\ account_books[i].is_active
           /\ account_books[i].cycle_start_day = 31

\* C25: after any sequence of ledger create and update requests every stored
\* ledger has a currency code of exactly 3 characters.
C25_CurrencyOfThree ==
    \A i \in 1 .. Len(account_books) : Len(account_books[i].currency) = 3

\* the amounts of the forms that are zero, negative or not a number: "0", "-0.01", "a"
RefusedAmounts == { <<48>>, <<45, 48, 46, 48, 49>>, <<97>> }

\* a transaction create or update whose amount is zero, negative or not a number
AmountRefused(r) ==
    /\ r.handler \in {"transaction::create", "transaction::update"}
    /\ r.form.amount \in RefusedAmounts

\* C24: every stored transaction has an amount greater than zero; a transaction
\* create or update whose amount is zero, negative or unparsable is refused and
\* leaves the stored transactions unchanged.
C24_PositiveAmounts ==
    [][/\ \A i \in 1 .. Len(transactions') : transactions'[i].amount > 0
       /\ AmountRefused(Handled)
              => (transactions' = transactions /\ ~response'.success)]_vars

\* the update of a stored transaction of the ledger asked for the amount "0"
\* and was refused
C24_Witness ==
    /\ Len(requests) = 1
    /\ requests[1].handler = "transaction::update"
    /\ requests[1].form.amount = <<48>>
    /\ requests[1].user_id = 1
    /\ ~response.success
    /\ \E i \in 1 .. Len(transactions) :
           /\ transactions[i].id = requests[1].id
           /\ transactions[i].account_book_id = requests[1].account_book_id
           /\ transactions[i].amount = 2
    /\ category_find_by_id(categories, requests[1].form.category_id) # {}

\* ---------------------------------------------------------------------------
\* Deletes in ledgers that hold categories and transactions
\* ---------------------------------------------------------------------------

\* ledger 1 with an income and an expense category, ledger 2 with one category
StoredCategories ==
    Category_create(Category_create(Category_create(<< >>, 1, "food", "income"),
                                    1, "misc", "expense"), 2, "food", "expense")

\* a transaction of each category, then a second one of category 1
StoredTransactions ==
    Transaction_create(
        Transaction_create(
            Transaction_create(
                Transaction_create(<< >>, 1, 1, 1, 1, "income", FormDate),
                2, 1, 2, 2, "expense", FormDate),
            3, 2, 3, 1, "expense", FormDate),
        4, 1, 1, 2, "income", FormDate)

DeleteInit ==
    /\ today = FormDate
    /\ cycle_start_day = 1
    /\ cycle = NotCalled
    /\ period = NoPeriod
    /\ account_books = TwoLedgers
    /\ categories = StoredCategories
    /\ transactions = StoredTransactions
    /\ auto_increment = Len(StoredTransactions) + 1
    /\ requests = << >>
    /\ response = [kind |-> "none"]

DeleteNext == account_book_delete \/ category_delete \/ transaction_delete

DeleteSpec == DeleteInit /\ [][DeleteNext]_vars

\* the rows of a table as a set
RowsOf(table) == { table[i] : i \in 1 .. Len(table) }

\* the table after the delete holds the row of that id with is_active = FALSE and
\* every other row as it was
SoftDeleted(before, after, id) ==
    /\ Len(after) = Len(before)
    /\ \A i \in 1 .. Len(before) :
           IF before[i].id = id
           THEN after[i] = [before[i] EXCEPT !.is_active = FALSE]
           ELSE after[i] = before[i]
    /\ \E i \in 1 .. Len(after) : after[i].id = id /\ ~after[i].is_active

\* C26: deleting a ledger or a category is soft: the record stays stored with
\* is_active = false, the find and list queries no longer return it, and the
\* categories and transactions are left unchanged; deleting a transaction is hard:
\* the record is removed and every other transaction is unchanged.
C26_SoftAndHardDeletes ==
    [][response'.success =>
        /\ Handled.handler = "account_book::delete" =>
               /\ SoftDeleted(account_books, account_books', Handled.id)
               /\ AccountBook_find_by_id(account_books', Handled.id,
                                         Handled.user_id).rows = {}
               /\ \A k \in 1 .. Len(AccountBook_find_by_user(account_books',
                                                             Handled.user_id)) :
                      AccountBook_find_by_user(account_books',
                                               Handled.user_id)[k].id # Handled.id
               /\ categories' = categories
               /\ transactions' = transactions
        /\ Handled.handler = "category::delete" =>
               /\ SoftDeleted(categories, categories', Handled.id)
               /\ category_find_by_id(categories', Handled.id) = {}
               /\ \A k \in 1 .. Len(Category_find_by_account_book(
                                        categories', Handled.account_book_id)) :
                      Category_find_by_account_book(
                          categories', Handled.account_book_id)[k].id # Handled.id
               /\ account_books' = account_books
               /\ transactions' = transactions
        /\ Handled.handler = "transaction::delete" =>
               /\ \E row \in RowsOf(transactions) :
                      /\ row.id = Handled.id
                      /\ RowsOf(transactions') = RowsOf(transactions) \ {row}
               /\ Len(transactions') = Len(transactions) - 1
               /\ Transaction_find_by_id(transactions', Handled.id) = {}
               /\ account_books' = account_books
               /\ categories' = categories]_vars

\* ledger 1 and category 2 are deleted and stored, category 2 was deleted after
\* its transaction, and two transactions of the ledger are still stored
C26_Witness ==
    /\ \E i \in 1 .. Len(account_books) :
           account_books[i].id = 1 /\ ~account_books[i].is_active
    /\ \E k \in 1 .. Len(categories) : categories[k].id = 2 /\ ~categories[k].is_active
    /\ Transaction_find_by_id(transactions, 2) = {}
    /\ Len(transactions) = Len(StoredTransactions) - 1
    /\ Len(categories) = Len(StoredCategories)

\* every transaction of the table references an active category of its own ledger
ReferencesActiveCategories(cats, txs) ==
    \A i \in 1 .. Len(txs) :
        \E k \in 1 .. Len(cats) :
            /\ cats[k].id = txs[i].category_id
            /\ cats[k].is_active
            /\ cats[k].account_book_id = txs[i].account_book_id

\* C27: with requests handled one at a time, every stored transaction references
\* a category that is active and of the same ledger as the transaction; the delete
\* of a category that at least one transaction references is refused and changes
\* nothing.
C27_ActiveCategoryOfLedger ==
    [][/\ ReferencesActiveCategories(categories', transactions')
       /\ (/\ Handled.handler = "category::delete"
           /\ \E i \in 1 .. Len(transactions) :
                  transactions[i].category_id = Handled.id)
              => /\ ~response'.success
                 /\ categories' = categories
                 /\ transactions' = transactions
                 /\ account_books' = account_books]_vars

\* the owner of an active ledger asked to delete an active category of the ledger
\* that a stored transaction references, and was refused
C27_Witness ==
    /\ Len(requests) = 1
    /\ requests[1].handler = "category::delete"
    /\ ~response.success
    /\ OwnsActiveLedger(account_books, requests[1])
    /\ \E category \in category_find_by_id(categories, requests[1].id) :
           category.account_book_id = requests[1].account_book_id
    /\ \E i \in 1 .. Len(transactions) : transactions[i].category_id = requests[1].id

\* the rows of the table that belong to the ledger
RowsOfLedger(table, account_book_id) ==
    { row \in RowsOf(table) : row.account_book_id = account_book_id }

\* C29: once a ledger is soft-deleted, no later request creates, updates or
\* deletes a category or a transaction of that ledger, and the ledger never
\* becomes active again.
C29_DeletedLedgerFrozen ==
    [][\A i \in 1 .. Len(account_books) :
           ~account_books[i].is_active =>
               /\ ~account_books'[i].is_active
               /\ RowsOfLedger(categories', account_books[i].id)
                      = RowsOfLedger(categories, account_books[i].id)
               /\ RowsOfLedger(transactions', account_books[i].id)
                      = RowsOfLedger(transactions, account_books[i].id)]_vars

\* ---------------------------------------------------------------------------
\* Requests handled concurrently: the checks of a handler and its write are
\* two steps, and steps of other requests may run between them
\* ---------------------------------------------------------------------------

MaxRequests == 2

\* the checks of a handler: the request goes on to its write, or is answered
Begin(r) ==
    /\ Len(requests) < MaxRequests
    /\ IF Checks(account_books, categories, transactions, r)
       THEN /\ requests' = Append(requests, [r EXCEPT !.pc = "checked"])
            /\ UNCHANGED response
       ELSE /\ requests' = Append(requests, r)
            /\ response' = Redirected(FALSE)
    /\ UNCHANGED <<account_books, categories, transactions, auto_increment>>
    /\ UNCHANGED <<today, cycle_start_day, cycle, period>>

\* category::delete up to its count of the transactions
category_delete_checks ==
    \E user_id \in Users, account_book_id \in 1 .. Len(account_books),
       category_id \in CategoryIds :
        Begin(Request("category::delete", user_id, account_book_id, category_id,
                      NoForm, "done"))

\* transaction::create up to Category::find_by_id
transaction_create_checks ==
    /\ auto_increment <= MaxRows
    /\ \E user_id \in Users, account_book_id \in 1 .. Len(account_books),
          category_id \in CategoryIds, amount \in LedgerAmounts,
          type \in TransactionTypes :
           Begin(Request("transaction::create", user_id, account_book_id, 0,
                         [category_id |-> category_id, amount |-> amount,
                          transaction_type |-> type, transaction_date |-> FormDate],
                         "done"))

\* transaction::update up to Category::find_by_id
transaction_update_checks ==
    \E user_id \in Users, account_book_id \in 1 .. Len(account_books),
       transaction_id \in TransactionIds, category_id \in CategoryIds,
       amount \in LedgerAmounts :
        Begin(Request("transaction::update", user_id, account_book_id, transaction_id,
                      [category_id |-> category_id, amount |-> amount,
                       transaction_date |-> FormDate], "done"))

\* Category::delete, Transaction::create or Transaction::update of a request
\* whose checks have passed
write ==
    \E i \in 1 .. Len(requests) :
        /\ requests[i].pc = "checked"
        /\ Write(requests[i])
        /\ requests' = [requests EXCEPT ![i].pc = "done"]
        /\ response' = Redirected(TRUE)
        /\ UNCHANGED <<today, cycle_start_day, cycle, period>>

\* a ledger with two income categories and a transaction of the first one
RaceInit ==
    /\ today = FormDate
    /\ cycle_start_day = 1
    /\ cycle = NotCalled
    /\ period = NoPeriod
    /\ account_books = AccountBook_create(<< >>, 1, "CNY", 1)
    /\ categories = Category_create(Category_create(<< >>, 1, "food", "income"),
                                    1, "misc", "income")
    /\ transactions = Transaction_create(<< >>, 1, 1, 1, 1, "income", FormDate)
    /\ auto_increment = 2
    /\ requests = << >>
    /\ response = [kind |-> "none"]

RaceNext ==
    \/ category_delete_checks
    \/ transaction_create_checks
    \/ transaction_update_checks
    \/ write

RaceSpec == RaceInit /\ [][RaceNext]_vars

\* C28: under any interleaving of the database steps of concurrent requests, no
\* stored transaction references a soft-deleted category.
C28_NoDeletedCategoryReferenced ==
    \A i \in 1 .. Len(transactions), k \in 1 .. Len(categories) :
        categories[k].id = transactions[i].category_id => categories[k].is_active

\* ---------------------------------------------------------------------------
\* The buckets of get_monthly_details against the summary, checked under ReportSpec
\* ---------------------------------------------------------------------------

RECURSIVE SumSeq(_)
\* the sum of a sequence of numbers
SumSeq(s) == IF Len(s) = 0 THEN 0 ELSE Head(s) + SumSeq(Tail(s))

\* C30: for one report over one unchanged set of rows of the types income and
\* expense, the incomes of the buckets of get_monthly_details add up to
\* total_income, their expenses to total_expense and their transaction counts to
\* the number of rows in the range.
C30_BucketsAddUpToSummary ==
    response.kind = "reports" =>
        /\ SumSeq([n \in DOMAIN response.monthly_details |->
                      response.monthly_details[n].income]) = response.total_income
        /\ SumSeq([n \in DOMAIN response.monthly_details |->
                      response.monthly_details[n].expense]) = response.total_expense
        /\ SumSeq([n \in DOMAIN response.monthly_details |->
                      response.monthly_details[n].transaction_count])
               = Cardinality(RowsOfReport)

\* a report of two buckets, an income row in one and an expense row in the other,
\* over a table that also holds nothing outside the range
C30_Witness ==
    /\ response.kind = "reports"
    /\ Len(response.monthly_details) = 2
    /\ response.total_income > 0
    /\ response.total_expense > 0
    /\ response.monthly_details[1].income + response.monthly_details[2].income
           = response.total_income
    /\ Cardinality(RowsOfReport) = 2

====
